---- MODULE Spec2Model ----
(***************************************************************************)
(* FRI prover (fri/src/prover/monolith/mod.rs): commit phase build_layers, *)
(* query phase build_proof, reset and num_layers, over a toy prime field.  *)
(* Sequences are 1-based; the 0-based index k of the source is k+1 here.   *)
(***************************************************************************)
EXTENDS Integers, Sequences, FiniteSets, TLC

\* ------------------------------------------------------------------------
\* Bounds of the model
\* ------------------------------------------------------------------------

\* evaluation lengths are the numbers 2^k and 3 * 2^k up to 2^MaxLog
MaxLog == 8

\* max remainder sizes are 2^k with k in 1..MaxRemLog
MaxRemLog == 4

\* challenges served by the channel are 1..NumAlphas
NumAlphas == 2

\* the toy field is the integers modulo FieldModulus
FieldModulus == 7681

\* digests are integers modulo DigestModulus
DigestModulus == 65521

RECURSIVE Pow(_, _)
Pow(b, e) == IF e = 0 THEN 1 ELSE b * Pow(b, e - 1)

Lengths == { len \in { m * Pow(2, k) : m \in {1, 3}, k \in 0..MaxLog } : len <= Pow(2, MaxLog) }

RemainderSizes == { Pow(2, k) : k \in 1..MaxRemLog }

\* configured folding factors: the supported ones and an unsupported one
FoldingFactors == {2, 4, 8, 16}

SupportedFactors == {4, 8, 16}

Alphas == 1..NumAlphas

\* position lists handed to build_proof (duplicates and out-of-domain included)
PositionLists == { <<0, 5, 9>>, <<7, 1, 7>>, <<2000>> }

\* ------------------------------------------------------------------------
\* State
\* ------------------------------------------------------------------------
VARIABLES
    options,      \* FriProver.options: folding factor, max remainder size, domain offset
    layers,       \* FriProver.layers: sequence of [tree, evaluations]
    pc,           \* position inside build_layers, "idle" between public operations
    evaluations,  \* build_layers' local evaluations vector
    round,        \* iterations of the build_layers loop completed
    num_rounds,   \* upper end of the loop range, num_fri_layers(len) + 1
    channel,      \* events received by the channel of the latest commit phase
    inputs,       \* history: the latest commit phase's evaluations vector, at the call and
                  \* after each round (inputs[i] entered round i, counted from 1)
    proved,       \* history: a build_proof call has completed
    ret           \* outcome of the latest public operation

vars == <<options, layers, pc, evaluations, round, num_rounds, channel, inputs,
          proved, ret>>

\* ------------------------------------------------------------------------
\* Collaborators (options, utils, hashing, Merkle tree, folding)
\* ------------------------------------------------------------------------

\* FriOptions::num_fri_layers: folding rounds needed until the vector fits
\* into max_remainder_size
RECURSIVE num_fri_layers_of(_, _, _)
num_fri_layers_of(domain_size, folding, max_rem) ==
    IF domain_size > max_rem
    THEN 1 + num_fri_layers_of(domain_size \div folding, folding, max_rem)
    ELSE 0

num_fri_layers(domain_size) ==
    num_fri_layers_of(domain_size, options.folding_factor, options.max_remainder_size)

\* transpose_slice is defined for lengths that split into rows of N elements
transpose_ok(source, N) == Len(source) % N = 0

\* transpose_slice: row i gathers source[i], source[i + rows], source[i + 2*rows], ...
transpose_slice(source, N) ==
    LET row_count == Len(source) \div N
    IN  [i \in 1..row_count |-> [j \in 1..N |-> source[i + (j - 1) * row_count]]]

\* flatten_vector_elements: rows laid out one after another
flatten_vector_elements(rows, N) ==
    [k \in 1..(Len(rows) * N) |-> rows[((k - 1) \div N) + 1][((k - 1) % N) + 1]]

\* group_slice_elements: a flat vector seen as rows of N consecutive elements
group_slice_elements(flat, N) ==
    [i \in 1..(Len(flat) \div N) |-> [j \in 1..N |-> flat[(i - 1) * N + j]]]

RECURSIVE Horner(_, _, _, _)
Horner(s, k, x, m) ==
    IF k > Len(s) THEN 0 ELSE (s[k] + x * Horner(s, k + 1, x, m)) % m

\* hash_values: one digest per row
hash_values(rows) ==
    [i \in 1..Len(rows) |-> (Horner(rows[i], 1, 31, DigestModulus) + Len(rows[i])) % DigestModulus]

\* the node of the Merkle tree above leaves lo..hi: the digest of its two children
RECURSIVE MerkleNode(_, _, _)
MerkleNode(leaves, lo, hi) ==
    IF lo = hi THEN leaves[lo]
    ELSE LET mid == (lo + hi) \div 2
         IN  (37 * MerkleNode(leaves, lo, mid) + 41 * MerkleNode(leaves, mid + 1, hi) + 1)
                 % DigestModulus

\* MerkleTree::new and MerkleTree::root
MerkleTree_new(leaves) ==
    [leaves |-> leaves,
     root   |-> IF Len(leaves) = 0 THEN 0 ELSE MerkleNode(leaves, 1, Len(leaves))]

\* MerkleTree::prove_batch: one structure opening the requested leaves of this tree
prove_batch(tree, positions) ==
    [root   |-> tree.root,
     opened |-> [k \in 1..Len(positions) |-> tree.leaves[positions[k] + 1]]]

\* apply_drp: one folded element per row, from the challenge and the domain offset
apply_drp(rows, domain_offset, alpha) ==
    [i \in 1..Len(rows) |-> Horner(rows[i], 1, (alpha * domain_offset) % FieldModulus, FieldModulus)]

RECURSIVE SortedSeq(_)
SortedSeq(S) ==
    IF S = {} THEN <<>>
    ELSE LET m == CHOOSE x \in S : \A y \in S : x <= y
         IN  <<m>> \o SortedSeq(S \ {m})

\* fold_positions is defined when the target domain is not empty
fold_positions_ok(domain_size, folding) == domain_size \div folding > 0

\* fold_positions: de-duplicated, sorted positions modulo domain_size / folding_factor
fold_positions(positions, domain_size, folding) ==
    LET target == domain_size \div folding
    IN  SortedSeq({ positions[k] % target : k \in 1..Len(positions) })

\* ------------------------------------------------------------------------
\* Outcomes of public operations
\* ------------------------------------------------------------------------

NoProof == [layers |-> <<>>, remainder |-> <<>>, last_arg |-> 0]

\* op: the operation; status: "running", "ok" or "abort"; msg: the fatal condition;
\* positions: the positions given to build_proof; proof: the FriProof returned;
\* queried: the positions each proof-layer was opened at; count: the value
\* returned by num_layers
Outcome(op, status, msg) ==
    [op |-> op, status |-> status, msg |-> msg, positions |-> <<>>, proof |-> NoProof,
     queried |-> <<>>, count |-> 0]

\* the synthetic input v[k] = k
InputVector(len) == [k \in 1..len |-> (k - 1) % FieldModulus]

\* ------------------------------------------------------------------------
\* FriProver: constructor, accessors, reset
\* ------------------------------------------------------------------------

folding_factor == options.folding_factor

domain_offset == options.domain_offset

num_layers == Len(layers)

Init ==
    /\ options \in [folding_factor : FoldingFactors,
                    max_remainder_size : RemainderSizes,
                    domain_offset : {7}]
    /\ layers = <<>>
    /\ pc = "idle"
    /\ evaluations = <<>>
    /\ round = 0
    /\ num_rounds = 0
    /\ channel = <<>>
    /\ inputs = <<>>
    /\ proved = FALSE
    /\ ret = Outcome("new", "ok", "")

num_layers_call ==
    /\ pc = "idle"
    /\ ret' = [Outcome("num_layers", "ok", "") EXCEPT !.count = num_layers]
    /\ UNCHANGED <<options, layers, pc, evaluations, round, num_rounds, channel, inputs,
                   proved>>

reset ==
    /\ pc = "idle"
    /\ layers' = <<>>
    /\ ret' = Outcome("reset", "ok", "")
    /\ UNCHANGED <<options, pc, evaluations, round, num_rounds, channel, inputs, proved>>

\* ------------------------------------------------------------------------
\* Commit phase
\* ------------------------------------------------------------------------

\* variant: the emptiness assertion is missing
build_layers_precondition_off(ls) == TRUE

\* assert!(self.layers.is_empty())
build_layers_precondition(ls) == ls = <<>>

\* variant: the loop stops before the remainder layer
loop_bound_no_remainder(len) == num_fri_layers(len)

\* variant: the loop runs one round too many
loop_bound_extra(len) == num_fri_layers(len) + 2

\* upper end of the loop range: + 1 is for the remainder
loop_bound(len) == num_fri_layers(len) + 1

\* variant: the match has a default arm that builds the layer
dispatch_ok_any(folding) == TRUE

\* the match on self.folding_factor()
dispatch_ok(folding) == folding \in {4, 8, 16}

\* variant: the root is never sent to the channel
commit_fri_layer_skipped(ch, root) == ch

\* channel.commit_fri_layer(root)
commit_fri_layer(ch, root) == Append(ch, [kind |-> "commit", value |-> root])

\* variant: the channel is asked for two challenges
draw_fri_alpha_twice(ch, alpha) ==
    Append(Append(ch, [kind |-> "draw", value |-> alpha]), [kind |-> "draw", value |-> alpha])

\* channel.draw_fri_alpha()
draw_fri_alpha(ch, alpha) == Append(ch, [kind |-> "draw", value |-> alpha])

\* variant: only the first column of the transposed matrix is stored
new_layer_first_column(tree, transposed, N) ==
    [tree |-> tree, evaluations |-> [i \in 1..Len(transposed) |-> transposed[i][1]]]

\* variant: the evaluations are stored in natural order
new_layer_natural(tree, transposed, N) ==
    [tree |-> tree,
     evaluations |-> [k \in 1..(Len(transposed) * N) |->
                        transposed[((k - 1) % Len(transposed)) + 1][((k - 1) \div Len(transposed)) + 1]]]

\* variant: the rows are stored without the last one
new_layer_short(tree, transposed, N) ==
    [tree |-> tree,
     evaluations |-> [k \in 1..((Len(transposed) - 1) * N) |->
                        transposed[((k - 1) \div N) + 1][((k - 1) % N) + 1]]]

\* the FriLayer pushed by build_layer
new_layer(tree, transposed, N) ==
    [tree |-> tree, evaluations |-> flatten_vector_elements(transposed, N)]

\* debug_assert!(remainder_size <= self.options.max_remainder_size())
remainder_check(ls) ==
    Len(ls[Len(ls)].evaluations) <= options.max_remainder_size

build_layers_call ==
    /\ pc = "idle"
    /\ IF ~build_layers_precondition(layers)
       THEN /\ ret' = Outcome("build_layers", "abort", "prior request not completed")
            /\ UNCHANGED <<options, layers, pc, evaluations, round, num_rounds, channel,
                           inputs, proved>>
       ELSE \E len \in Lengths :
              /\ evaluations' = InputVector(len)
              /\ num_rounds' = loop_bound(len)
              /\ round' = 0
              /\ channel' = <<>>
              /\ inputs' = <<InputVector(len)>>
              /\ pc' = "loop"
              /\ ret' = Outcome("build_layers", "running", "")
              /\ UNCHANGED <<options, layers, proved>>

build_layers_loop ==
    /\ pc = "loop"
    /\ IF round < num_rounds
       THEN IF dispatch_ok(folding_factor)
            THEN /\ pc' = "commit"
                 /\ UNCHANGED <<evaluations, ret>>
            ELSE /\ pc' = "idle"
                 /\ evaluations' = <<>>
                 /\ ret' = Outcome("build_layers", "abort", "folding factor not supported")
       ELSE /\ pc' = "idle"
            /\ evaluations' = <<>>
            /\ ret' = IF layers = <<>>
                      THEN Outcome("build_layers", "abort", "index out of bounds")
                      ELSE IF remainder_check(layers)
                      THEN Outcome("build_layers", "ok", "")
                      ELSE Outcome("build_layers", "abort", "last FRI layer too long")
    /\ UNCHANGED <<options, layers, round, num_rounds, channel, inputs, proved>>

build_layer_commit ==
    /\ pc = "commit"
    /\ IF ~transpose_ok(evaluations, folding_factor)
       THEN /\ pc' = "idle"
            /\ evaluations' = <<>>
            /\ ret' = Outcome("build_layers", "abort", "length not divisible by folding factor")
            /\ UNCHANGED channel
       ELSE LET transposed_evaluations == transpose_slice(evaluations, folding_factor)
                evaluation_tree == MerkleTree_new(hash_values(transposed_evaluations))
            IN  /\ channel' = commit_fri_layer(channel, evaluation_tree.root)
                /\ pc' = "draw"
                /\ UNCHANGED <<evaluations, ret>>
    /\ UNCHANGED <<options, layers, round, num_rounds, inputs, proved>>

build_layer_draw ==
    /\ pc = "draw"
    /\ \E alpha \in Alphas :
         LET transposed_evaluations == transpose_slice(evaluations, folding_factor)
             evaluation_tree == MerkleTree_new(hash_values(transposed_evaluations))
         IN  /\ channel' = draw_fri_alpha(channel, alpha)
             /\ evaluations' = apply_drp(transposed_evaluations, domain_offset, alpha)
             /\ layers' = Append(layers, new_layer(evaluation_tree, transposed_evaluations,
                                                   folding_factor))
             /\ inputs' = Append(inputs, apply_drp(transposed_evaluations, domain_offset, alpha))
    /\ round' = round + 1
    /\ pc' = "loop"
    /\ UNCHANGED <<options, num_rounds, proved, ret>>

\* ------------------------------------------------------------------------
\* Query phase
\* ------------------------------------------------------------------------

\* assert!(!self.layers.is_empty())
build_proof_precondition(ls) == ls # <<>>

\* query_layer indexes the rows of the layer: a position past the last row is fatal
query_layer_ok(layer, positions, N) ==
    \A k \in 1..Len(positions) : positions[k] < Len(layer.evaluations) \div N

\* variant: rows are picked by the loop counter instead of the position
query_layer_by_index(layer, positions, N) ==
    [values |-> [k \in 1..Len(positions) |-> group_slice_elements(layer.evaluations, N)[k]],
     proof  |-> prove_batch(layer.tree, positions)]

\* query_layer: the batched authentication proof and the row stored at each position
query_layer(layer, positions, N) ==
    [values |-> [k \in 1..Len(positions) |->
                    group_slice_elements(layer.evaluations, N)[positions[k] + 1]],
     proof  |-> prove_batch(layer.tree, positions)]

\* variant: the query loop also visits the remainder layer
num_proof_layers_all(ls) == Len(ls)

\* number of iterations of the query loop: all layers except the last one
num_proof_layers(ls) == Len(ls) - 1

\* variant: the running domain size starts at the first layer's leaf count
initial_domain_size_leaves(ls) == Len(ls[1].tree.leaves)

\* let mut domain_size = self.layers[0].evaluations.len()
initial_domain_size(ls) == Len(ls[1].evaluations)

\* variant: the running domain size is never reduced
next_domain_size_same(domain_size, folding) == domain_size

\* domain_size /= folding_factor
next_domain_size(domain_size, folding) == domain_size \div folding

\* the query loop from iteration i (0-based) on; acc collects the proof-layers (layers),
\* the positions they were opened at (queried) and whether a fatal condition was hit
RECURSIVE query_loop(_, _, _, _, _, _)
query_loop(ls, i, positions, domain_size, folding, acc) ==
    IF i >= num_proof_layers(ls) THEN acc
    ELSE IF ~(Len(positions) = 0 \/ fold_positions_ok(domain_size, folding))
         THEN [acc EXCEPT !.ok = FALSE, !.msg = "division by zero"]
    ELSE LET folded == fold_positions(positions, domain_size, folding)
         IN  IF ~dispatch_ok(folding)
             THEN [acc EXCEPT !.ok = FALSE, !.msg = "folding factor not supported"]
             ELSE IF ~query_layer_ok(ls[i + 1], folded, folding)
             THEN [acc EXCEPT !.ok = FALSE, !.msg = "position out of range"]
             ELSE query_loop(ls, i + 1, folded, next_domain_size(domain_size, folding), folding,
                             [acc EXCEPT !.layers = Append(@, query_layer(ls[i + 1], folded, folding)),
                                         !.queried = Append(@, folded)])

\* variant: the last layer's values are returned as stored
untranspose_skipped(last_values, folding) == last_values

\* the remainder: the last layer's values, un-transposed
\* (remainder[i + n * j] = last_values[i * folding_factor + j], other entries stay zero)
untranspose(last_values, folding) ==
    LET n == Len(last_values) \div folding
    IN  [k \in 1..Len(last_values) |->
            IF k - 1 < n * folding
            THEN last_values[((k - 1) % n) * folding + ((k - 1) \div n) + 1]
            ELSE 0]

\* variant: build_proof does not clear the layers
layers_kept(ls) == ls

\* self.reset() at the end of build_proof
layers_after_proof(ls) == <<>>

\* FriProof::new(layers, remainder, 1)
FriProof_new(proof_layers, remainder, last_arg) ==
    [layers |-> proof_layers, remainder |-> remainder, last_arg |-> last_arg]

\* variant: an empty proof is returned instead of the fatal condition
layers_not_built_soft ==
    [Outcome("build_proof", "ok", "") EXCEPT !.proof = [layers |-> <<>>, remainder |-> <<>>, last_arg |-> 1]]

\* the fatal condition raised by assert!(!self.layers.is_empty())
layers_not_built == Outcome("build_proof", "abort", "layers have not been built yet")

\* the outcome of build_proof on stored layers ls
build_proof_outcome(ls, positions, folding) ==
    IF ~build_proof_precondition(ls) THEN layers_not_built
    ELSE IF ls = <<>> THEN Outcome("build_proof", "abort", "index out of bounds")
    ELSE LET domain_size == initial_domain_size(ls)
             walk == query_loop(ls, 0, positions, domain_size, folding,
                                [ok |-> TRUE, msg |-> "", layers |-> <<>>, queried |-> <<>>])
             last_values == ls[Len(ls)].evaluations
         IN  IF ~walk.ok
             THEN Outcome("build_proof", "abort", walk.msg)
             ELSE [Outcome("build_proof", "ok", "") EXCEPT
                     !.proof = FriProof_new(walk.layers, untranspose(last_values, folding), 1),
                     !.queried = walk.queried]

\* variant: build_proof draws a challenge from the channel
build_proof_drawing ==
    /\ pc = "idle"
    /\ \E positions \in PositionLists :
         LET out == build_proof_outcome(layers, positions, options.folding_factor)
         IN  /\ ret' = [out EXCEPT !.positions = positions]
             /\ proved' = (proved \/ out.status = "ok")
             /\ layers' = IF out.status = "ok" THEN layers_after_proof(layers) ELSE layers
             /\ channel' = IF out.status = "ok" THEN draw_fri_alpha(channel, 1) ELSE channel
    /\ UNCHANGED <<options, pc, evaluations, round, num_rounds, inputs>>

build_proof ==
    /\ pc = "idle"
    /\ \E positions \in PositionLists :
         LET out == build_proof_outcome(layers, positions, options.folding_factor)
         IN  /\ ret' = [out EXCEPT !.positions = positions]
             /\ proved' = (proved \/ out.status = "ok")
             /\ layers' = IF out.status = "ok" THEN layers_after_proof(layers) ELSE layers
    /\ UNCHANGED <<options, pc, evaluations, round, num_rounds, channel, inputs>>

\* ------------------------------------------------------------------------
\* Specification
\* ------------------------------------------------------------------------

Next ==
    \/ build_layers_call
    \/ build_layers_loop
    \/ build_layer_commit
    \/ build_layer_draw
    \/ build_proof
    \/ reset
    \/ num_layers_call

Spec == Init /\ [][Next]_vars

\* ------------------------------------------------------------------------
\* Properties
\* ------------------------------------------------------------------------

max_remainder_size == options.max_remainder_size

\* the evaluation length given to the latest commit phase
initial_len == IF inputs = <<>> THEN 0 ELSE Len(inputs[1])

\* rounds completed by the latest commit phase
rounds_done == IF inputs = <<>> THEN 0 ELSE Len(inputs) - 1

\* len is a power of the folding factor times a valid remainder size: a positive
\* multiple of the folding factor that does not exceed max_remainder_size
RECURSIVE ValidLength(_)
ValidLength(len) ==
    /\ len > 0
    /\ len % folding_factor = 0
    /\ (len > max_remainder_size => ValidLength(len \div folding_factor))

\* the latest public operation was a build_layers that got past its precondition and returned
BuildLayersReturned ==
    /\ pc = "idle"
    /\ ret.op = "build_layers"
    /\ ret.msg # "prior request not completed"

BuildProofReturned == ret.op = "build_proof" /\ ret.status = "ok"

\* the tree build_layer commits to for the round input v
TreeOf(v) == MerkleTree_new(hash_values(transpose_slice(v, folding_factor)))

\* C1: the channel receives commit, draw, commit, draw, ...; during build_layers the
\* commit of round i carries the root of the tree over round i's input, the draw that
\* follows it is the challenge that folds round i, and the commit of round i+1 comes
\* after that draw
C1_CommitBeforeDraw ==
    /\ Len(channel) = 2 * rounds_done + (IF pc = "draw" THEN 1 ELSE 0)
    /\ \A k \in 1..Len(channel) :
         channel[k].kind = IF k % 2 = 1 THEN "commit" ELSE "draw"
    /\ pc = "loop"
       => \A i \in 1..rounds_done :
            /\ channel[2 * i - 1].value = TreeOf(inputs[i]).root
            /\ inputs[i + 1] = apply_drp(transpose_slice(inputs[i], folding_factor),
                                         domain_offset, channel[2 * i].value)
    /\ pc = "draw" => channel[Len(channel)].value = TreeOf(evaluations).root

C1_Witness ==
    /\ BuildLayersReturned
    /\ ret.status = "ok"
    /\ Len(channel) >= 6

\* C2: for a supported folding factor and a length that is a power of the folding factor
\* times a valid remainder size, build_layers on an idle prover completes with exactly
\* num_fri_layers(L) + 1 layers, and layer i (from 0) holds L / F^i evaluations
C2_LayerCountAndSizes ==
    (BuildLayersReturned /\ folding_factor \in SupportedFactors /\ ValidLength(initial_len))
    => /\ ret.status = "ok"
       /\ Len(layers) = num_fri_layers(initial_len) + 1
       /\ \A i \in 1..Len(layers) :
            Len(layers[i].evaluations) * Pow(folding_factor, i - 1) = initial_len

C2_Witness ==
    /\ BuildLayersReturned
    /\ ret.status = "ok"
    /\ ValidLength(initial_len)
    /\ Len(layers) >= 3

\* the stored layers are a complete result of the latest commit phase
CompleteLayers ==
    /\ Len(layers) = num_fri_layers(initial_len) + 1
    /\ Len(layers[Len(layers)].evaluations) <= max_remainder_size
    /\ Len(layers[Len(layers)].evaluations) % folding_factor = 0

C4_BusyAborts ==
    [][(pc = "idle" /\ layers # <<>> /\ ret'.op = "build_layers")
       => /\ ret'.status = "abort"
          /\ pc' = "idle"
          /\ layers' = layers
          /\ channel' = channel]_vars

C4_Witness ==
    /\ ret.op = "build_layers"
    /\ ret.status = "abort"
    /\ ret.msg = "prior request not completed"
    /\ Len(layers) >= 2

\* C5: build_proof called while no layers are held aborts and returns no proof,
\* whatever the positions
C5_NoLayersAborts ==
    [][(pc = "idle" /\ layers = <<>> /\ ret'.op = "build_proof")
       => /\ ret'.status = "abort"
          /\ ret'.proof = NoProof
          /\ layers' = <<>>]_vars

C5_Witness ==
    /\ ret.op = "build_proof"
    /\ ret.status = "abort"
    /\ ret.positions = <<0, 5, 9>>
    /\ proved

\* C6: build_proof that completes and reset leave no layers; from there the next
\* build_layers is accepted and a build_proof is rejected
C6_CycleRepeats ==
    [][/\ ((ret'.op = "build_proof" /\ ret'.status = "ok") \/ ret'.op = "reset")
          => Len(layers') = 0
       /\ (pc = "idle" /\ (BuildProofReturned \/ ret.op = "reset"))
          => /\ ret'.op = "build_layers" => ret'.status = "running"
             /\ ret'.op = "build_proof" => ret'.status = "abort"]_vars

C6_Witness ==
    /\ proved
    /\ BuildLayersReturned
    /\ ret.status = "ok"

C8_RemainderNaturalOrder ==
    BuildProofReturned
    => /\ ret.proof.remainder = inputs[Len(ret.proof.layers) + 1]
       /\ ret.proof.layers = <<>>
          => \A k \in 1..Len(ret.proof.remainder) : ret.proof.remainder[k] = k - 1

C8_Witness ==
    /\ BuildProofReturned
    /\ ret.proof.layers = <<>>
    /\ Len(ret.proof.remainder) >= 2 * folding_factor

\* C9: every value group of proof-layer i is the row stored at commit time for the
\* opened position p, (v_i[p], v_i[p + rows], ..., v_i[p + (F-1) * rows]), and the
\* authentication proof comes from the tree whose root was the i-th commit
C9_QueriedRows ==
    BuildProofReturned
    => \A i \in 1..Len(ret.proof.layers) :
         LET rows == Len(inputs[i]) \div folding_factor
             opened == ret.queried[i]
         IN  /\ Len(ret.proof.layers[i].values) = Len(opened)
             /\ \A k \in 1..Len(opened) :
                  /\ opened[k] < rows
                  /\ ret.proof.layers[i].values[k] =
                       [j \in 1..folding_factor |-> inputs[i][opened[k] + (j - 1) * rows + 1]]
             /\ channel[2 * i - 1].kind = "commit"
             /\ ret.proof.layers[i].proof.root = channel[2 * i - 1].value
             /\ ret.proof.layers[i].proof.root = TreeOf(inputs[i]).root

C9_Witness ==
    /\ BuildProofReturned
    /\ Len(ret.proof.layers) >= 2
    /\ Len(ret.queried[1]) >= 3
    /\ ret.queried[1][2] > 1

\* the end-to-end case: length 16, folding factor 4, positions [0, 5, 9]
EndToEndCase ==
    /\ BuildProofReturned
    /\ folding_factor = 4
    /\ initial_len = 16
    /\ rounds_done = num_fri_layers(16) + 1
    /\ ret.positions = <<0, 5, 9>>

\* C10 as stated: with L = 16, F = 4 and max remainder size >= 4 the proof holds one
\* proof-layer and a remainder of length 4
C10_Original ==
    (EndToEndCase /\ max_remainder_size >= 4)
    => /\ Len(ret.proof.layers) = 1
       /\ Len(ret.proof.remainder) = 4

\* C10: build_proof returns one proof-layer per stored layer except the last, in commit
\* order; with L = 16, F = 4 and 4 <= max remainder size < 16, build_layers yields
\* layers of sizes 16 and 4 and build_proof([0,5,9]) one proof-layer and a remainder
\* of length 4
C10_ProofLayers ==
    [][(pc = "idle" /\ ret'.op = "build_proof" /\ ret'.status = "ok")
       => /\ Len(ret'.proof.layers) = Len(layers) - 1
          /\ \A i \in 1..Len(ret'.proof.layers) :
               ret'.proof.layers[i].proof.root = layers[i].tree.root
          /\ (EndToEndCase' /\ max_remainder_size >= 4 /\ max_remainder_size < 16)
             => /\ Len(layers) = 2
                /\ Len(layers[1].evaluations) = 16
                /\ Len(layers[2].evaluations) = 4
                /\ Len(ret'.proof.layers) = 1
                /\ Len(ret'.proof.remainder) = 4]_vars

C10_Witness ==
    /\ EndToEndCase
    /\ max_remainder_size >= 4
    /\ max_remainder_size < 16
    /\ Len(ret.proof.layers) = 1

\* C11: with a folding factor other than 4, 8, 16, build_layers aborts in its first
\* round with the configuration error; no root is committed, no challenge drawn and
\* no layer stored at any point
C11_UnsupportedFactorAborts ==
    folding_factor \notin {4, 8, 16}
    => /\ layers = <<>>
       /\ channel = <<>>
       /\ rounds_done = 0
       /\ pc \in {"idle", "loop"}
       /\ BuildLayersReturned
          => /\ ret.status = "abort"
             /\ ret.msg = "folding factor not supported"

C11_Witness ==
    /\ BuildLayersReturned
    /\ folding_factor \notin {4, 8, 16}
    /\ ret.msg = "folding factor not supported"
    /\ initial_len >= 16

\* C12 as stated: the proof returned by build_proof records the configured folding
\* factor next to the proof-layers and the remainder
C12_ProofRecordsFoldingFactor ==
    BuildProofReturned => ret.proof.last_arg = folding_factor

\* C13: build_proof sends nothing to the channel and draws nothing from it: the
\* transcript after build_proof is the transcript the commit phase left, whatever the
\* positions and whether build_proof completes or aborts
C13_ProofLeavesChannel ==
    [][(pc = "idle" /\ ret'.op = "build_proof") => channel' = channel]_vars

C13_Witness ==
    /\ BuildProofReturned
    /\ Len(ret.proof.layers) >= 1
    /\ Len(channel) >= 4

\* C14: every stored layer has one leaf in its tree per row of folding_factor
\* evaluations
C14_LeafPerRow ==
    \A i \in 1..Len(layers) :
        /\ Len(layers[i].tree.leaves) * folding_factor = Len(layers[i].evaluations)
        /\ Len(layers[i].tree.leaves) = Len(layers[i].evaluations) \div folding_factor

C14_Witness ==
    /\ Len(layers) >= 3
    /\ Len(layers[3].tree.leaves) >= 2

\* C15 as stated: num_layers returns the number of layers the last build_layers computed,
\* num_fri_layers(L) + 1 for its input length L, in whatever state it is called after
\* that build_layers has run all its rounds
C15_NumLayersOfLastBuild ==
    (ret.op = "num_layers" /\ initial_len > 0
        /\ rounds_done = num_fri_layers(initial_len) + 1)
    => ret.count = num_fri_layers(initial_len) + 1

\* C16: proof-layer i (from 0) is opened at the caller's positions folded i+1 times,
\* the de-duplicated set of position mod L / F^(i+1) with L the first layer's
\* evaluation count, and the domain size folded from at step i is layer i's
\* evaluation count
C16_FoldedPositions ==
    BuildProofReturned
    => /\ Len(ret.queried) = Len(ret.proof.layers)
       /\ \A i \in 1..Len(ret.queried) :
            LET target == initial_len \div Pow(folding_factor, i)
                opened == ret.queried[i]
            IN  /\ { opened[k] : k \in 1..Len(opened) }
                     = { ret.positions[k] % target : k \in 1..Len(ret.positions) }
                /\ \A k, l \in 1..Len(opened) : opened[k] = opened[l] => k = l
                /\ target * folding_factor = Len(inputs[i])

C16_Witness ==
    /\ BuildProofReturned
    /\ Len(ret.queried) >= 2
    /\ ret.positions = <<7, 1, 7>>
    /\ ret.queried[1] # ret.queried[2]

\* C17: the layer stored in round i holds the transposed input of that round,
\* stored[r * F + j] = v_i[r + j * rows], and the input of round i+1 is the
\* degree-respecting projection of those rows under the challenge drawn in round i and
\* the configured domain offset, so that len(v_{i+1}) = len(v_i) / F
C17_StoredAndFolded ==
    pc = "loop"
    => /\ Len(layers) = rounds_done
       /\ \A i \in 1..Len(layers) :
            LET rows == Len(inputs[i]) \div folding_factor
                stored == layers[i].evaluations
            IN  /\ Len(stored) = Len(inputs[i])
                /\ \A r \in 1..rows : \A j \in 1..folding_factor :
                     stored[(r - 1) * folding_factor + j] = inputs[i][r + (j - 1) * rows]
                /\ channel[2 * i].kind = "draw"
                /\ inputs[i + 1] = apply_drp(group_slice_elements(stored, folding_factor),
                                             domain_offset, channel[2 * i].value)
                /\ Len(inputs[i + 1]) * folding_factor = Len(inputs[i])
       /\ evaluations = inputs[Len(inputs)]

C17_Witness ==
    /\ pc = "loop"
    /\ Len(layers) >= 2
    /\ channel[2].value # channel[4].value
    /\ Len(layers[2].evaluations) >= 2 * folding_factor

\* events of one kind received by the channel
EventCount(kind) == Cardinality({ k \in 1..Len(channel) : channel[k].kind = kind })

\* C18: when build_layers completes the channel has received one commit and served one
\* draw per stored layer, the remainder layer included, num_fri_layers(L) + 1 of each,
\* and the k-th committed root is the root of the k-th stored layer's tree
C18_OneCommitOneDrawPerLayer ==
    (BuildLayersReturned /\ ret.status = "ok")
    => /\ Len(layers) = num_fri_layers(initial_len) + 1
       /\ EventCount("commit") = Len(layers)
       /\ EventCount("draw") = Len(layers)
       /\ Len(channel) = 2 * Len(layers)
       /\ \A k \in 1..Len(layers) :
            /\ channel[2 * k - 1].kind = "commit"
            /\ channel[2 * k - 1].value = layers[k].tree.root

C18_Witness ==
    /\ BuildLayersReturned
    /\ ret.status = "ok"
    /\ Len(layers) >= 3

\* C19: whatever positions build_proof is given, every position handed to query_layer
\* for layer i is below that layer's row count len_i / F, and build_proof on stored
\* layers never hits the out-of-range row access
C19_PositionsInRange ==
    [][(pc = "idle" /\ layers # <<>> /\ ret'.op = "build_proof")
       => /\ ret'.status = "ok"
          /\ Len(ret'.queried) = Len(layers) - 1
          /\ \A i \in 1..Len(ret'.queried) : \A k \in 1..Len(ret'.queried[i]) :
               ret'.queried[i][k] < Len(layers[i].evaluations) \div folding_factor]_vars

C19_Witness ==
    /\ BuildProofReturned
    /\ ret.positions = <<2000>>
    /\ Len(ret.queried) >= 2

====
